---- MODULE Spec2Model ----
(***************************************************************************)
(* Model of combine's zero-copy range parsers (src/parser/range.rs):       *)
(* range, take, take_while, take_while1, take_until_range, recognize and  *)
(* recognize_with_value, run over a (possibly partial) range stream whose  *)
(* input arrives in chunks.                                                *)
(*                                                                         *)
(* A stream is a pair (data, pos): data is the sequence of items that are  *)
(* available so far and pos the number of items already consumed. A        *)
(* checkpoint is a value of pos, reset(c) sets pos to c, distance(c) is    *)
(* pos - c.                                                                *)
(***************************************************************************)
EXTENDS Integers, Sequences, FiniteSets, TLC

\* ---------------------------------------------------------------- bounds
MaxLen == 3
MaxTarget == 2
MaxTake == 3
MaxReuse == 1

Items == {"a", "b"}
Values == {"v", "w"}
Modes == {"First", "Resume"}

SeqsUpTo(n) == UNION {[1..k -> Items] : k \in 0..n}

\* ------------------------------------------------- results of a parse call
\* tag   : EmptyOk | ConsumedOk | EmptyErr | ConsumedErr | Panic
\* range : the output range (<<>> on errors)
\* pos   : the cursor when the call returns
\* err   : none | empty | eoi ; errAt : the position the error carries
\* origin: the cursor at which the failure the error reports arose
\* iters : loop iterations run (take_until_range only)
Ok(tag, range, pos) ==
    [tag |-> tag, range |-> range, pos |-> pos, err |-> "none", errAt |-> 0, origin |-> 0,
     iters |-> 0]

Err(tag, pos, err, errAt) ==
    [tag |-> tag, range |-> <<>>, pos |-> pos, err |-> err, errAt |-> errAt, origin |-> errAt,
     iters |-> 0]

Panic(pos) ==
    [tag |-> "Panic", range |-> <<>>, pos |-> pos, err |-> "none", errAt |-> 0, origin |-> 0,
     iters |-> 0]

IsOk(tag) == tag \in {"EmptyOk", "ConsumedOk"}
IsErr(tag) == tag \in {"EmptyErr", "ConsumedErr"}

\* ------------------------------------------------ the stream collaborator
\* RangeStreamOnce::uncons_range: n items or a failure without advancing.
stream_uncons_range(data, pos, n) ==
    IF n <= Len(data) - pos
    THEN [ok |-> TRUE, range |-> SubSeq(data, pos + 1, pos + n), pos |-> pos + n]
    ELSE [ok |-> FALSE, range |-> <<>>, pos |-> pos]

\* StreamOnce::uncons: one item or a failure without advancing.
stream_uncons(data, pos) ==
    IF pos < Len(data)
    THEN [ok |-> TRUE, pos |-> pos + 1]
    ELSE [ok |-> FALSE, pos |-> pos]

\* RangeStreamOnce::uncons_while: the cursor after the maximal run of items
\* that satisfy the predicate (the set pred of items).
RECURSIVE stream_uncons_while(_, _, _)
stream_uncons_while(data, pos, pred) ==
    IF pos < Len(data) /\ data[pos + 1] \in pred
    THEN stream_uncons_while(data, pos + 1, pred)
    ELSE pos

input_at_eof(data, pos) == pos = Len(data)

\* A raw stream failure becomes a consumed error on a partial stream (more
\* input may arrive) and an empty error on a complete one.
wrap_stream_error(partial, pos) ==
    IF partial THEN Err("ConsumedErr", pos, "eoi", pos)
               ELSE Err("EmptyErr", pos, "eoi", pos)

uncons_range(data, pos, partial, size) ==
    LET r == stream_uncons_range(data, pos, size)
    IN  IF ~r.ok THEN wrap_stream_error(partial, pos)
        ELSE IF size = 0 THEN Ok("EmptyOk", r.range, r.pos)
        ELSE Ok("ConsumedOk", r.range, r.pos)

uncons_while(data, pos, partial, pred) ==
    LET end == stream_uncons_while(data, pos, pred)
    IN  IF partial /\ input_at_eof(data, end) THEN Err("ConsumedErr", end, "eoi", end)
        ELSE IF end = pos THEN Ok("EmptyOk", <<>>, end)
        ELSE Ok("ConsumedOk", SubSeq(data, pos + 1, end), end)

uncons_while1(data, pos, partial, pred) ==
    LET end == stream_uncons_while(data, pos, pred)
    IN  IF partial /\ input_at_eof(data, end) THEN Err("ConsumedErr", end, "eoi", end)
        ELSE IF end = pos THEN Err("EmptyErr", pos, "empty", pos)
        ELSE Ok("ConsumedOk", SubSeq(data, pos + 1, end), end)

\* ------------------------------------------------------------ Range, Take
\* Range::parse_lazy
RangeParseLazy(data, pos, partial, r) ==
    LET position == pos
        u == stream_uncons_range(data, pos, Len(r))
    IN  IF u.ok
        THEN IF u.range = r
             THEN Ok("ConsumedOk", u.range, u.pos)
             ELSE Err("EmptyErr", u.pos, "empty", position)
        ELSE wrap_stream_error(partial, pos)

\* Take reading one item more than asked for.
TakeOneMore(data, pos, partial, n) == uncons_range(data, pos, partial, n + 1)

\* Take::parse_lazy
TakeParseLazy(data, pos, partial, n) == uncons_range(data, pos, partial, n)

\* --------------------------------------------- the partial-resume scaffold
\* A stateful call returns its result and the distance it leaves stored.
Stateful(res, dist) == [res |-> res, dist |-> dist]

\* A scan closure |input, predicate| f(input, predicate), named by f.
Closure(f, data, pos, partial, predicate) ==
    IF f = "uncons_while" THEN uncons_while(data, pos, partial, predicate)
                          ELSE uncons_while1(data, pos, partial, predicate)

\* parse_partial_range: before is the checkpoint taken on entry; first and
\* resume are the two scan closures, state the predicate handed to them.
parse_partial_range(mode, data, pos, partial, distance_state, state, first, resume) ==
    LET before == pos
    IN  IF ~partial
        THEN Stateful(Closure(first, data, pos, partial, state), distance_state)
        ELSE IF mode = "First" \/ distance_state = 0
        THEN LET result == Closure(first, data, pos, partial, state)
             IN  IF result.tag = "ConsumedErr"
                 THEN Stateful([result EXCEPT !.pos = before], result.pos - before)
                 ELSE Stateful(result, distance_state)
        ELSE LET ff == stream_uncons_range(data, pos, distance_state)
             IN  IF ~ff.ok
                 THEN Stateful(Panic(pos), distance_state)
                 ELSE LET r == Closure(resume, data, ff.pos, partial, state)
                      IN  CASE r.tag = "EmptyErr" -> Stateful(r, distance_state)
                            [] r.tag = "ConsumedErr" ->
                                 Stateful([r EXCEPT !.pos = before], r.pos - before)
                            [] OTHER ->
                                 LET distance == r.pos - before
                                     t == TakeParseLazy(data, before, partial, distance)
                                 IN  Stateful(t, IF IsOk(t.tag) THEN 0 ELSE distance_state)

\* TakeWhile with take_while1's first-attempt closure.
TakeWhileFirstWhile1(mode, data, pos, partial, state, pred) ==
    parse_partial_range(mode, data, pos, partial, state, pred, "uncons_while1", "uncons_while")

\* TakeWhile that leaves the cursor where a suspended scan stopped.
TakeWhileNoReset(mode, data, pos, partial, state, pred) ==
    LET out == parse_partial_range(mode, data, pos, partial, state, pred, "uncons_while", "uncons_while")
    IN  IF out.res.tag = "ConsumedErr"
        THEN Stateful([out.res EXCEPT !.pos = out.res.errAt], out.dist)
        ELSE out

\* TakeWhile that does not record the distance of a suspended scan.
TakeWhileNoStore(mode, data, pos, partial, state, pred) ==
    LET out == parse_partial_range(mode, data, pos, partial, state, pred, "uncons_while", "uncons_while")
    IN  IF out.res.tag = "ConsumedErr" THEN Stateful(out.res, state) ELSE out

\* TakeWhile that takes every stream for a partial one.
TakeWhileAlwaysPartial(mode, data, pos, partial, state, pred) ==
    parse_partial_range(mode, data, pos, TRUE, state, pred, "uncons_while", "uncons_while")

\* TakeWhile that records one item more than the suspended scan covered.
TakeWhileStoresOneMore(mode, data, pos, partial, state, pred) ==
    LET out == parse_partial_range(mode, data, pos, partial, state, pred, "uncons_while", "uncons_while")
    IN  IF out.res.tag = "ConsumedErr" THEN Stateful(out.res, out.dist + 1) ELSE out

\* TakeWhile::parse_mode_impl
TakeWhileParseMode(mode, data, pos, partial, state, pred) ==
    parse_partial_range(mode, data, pos, partial, state, pred, "uncons_while", "uncons_while")

\* TakeWhile1 with the first-attempt closure also handed in as the resume
\* closure.
TakeWhile1SameClosure(mode, data, pos, partial, state, pred) ==
    parse_partial_range(mode, data, pos, partial, state, pred, "uncons_while1", "uncons_while1")

\* TakeWhile1 with take_while's first-attempt closure.
TakeWhile1FirstWhile(mode, data, pos, partial, state, pred) ==
    parse_partial_range(mode, data, pos, partial, state, pred, "uncons_while", "uncons_while")

\* TakeWhile1::parse_mode_impl
TakeWhile1ParseMode(mode, data, pos, partial, state, pred) ==
    parse_partial_range(mode, data, pos, partial, state, pred, "uncons_while1", "uncons_while")

\* -------------------------------------------------------- take_until_range
NoError == -1

\* The loop of TakeUntilRange::parse_partial. cur is the cursor at the top of
\* the iteration (look_ahead_input), first_stream_error the distance of the
\* first failed look-ahead (NoError while there is none), n the iterations
\* already run.
RECURSIVE TakeUntilRangeLoop(_, _, _, _, _, _, _, _)
TakeUntilRangeLoop(data, before, partial, target, to_consume, cur, first_stream_error, n) ==
    LET len == Len(target)
        look == stream_uncons_range(data, cur, len)
    IN  IF look.ok
        THEN IF look.range = target
             THEN LET distance == (look.pos - before) - len
                      again == stream_uncons_range(data, before, distance)
                  IN  IF distance < 0 \/ ~again.ok
                      THEN Stateful([Panic(before) EXCEPT !.iters = n + 1], to_consume)
                      ELSE IF distance = 0
                      THEN Stateful([Ok("EmptyOk", again.range, again.pos) EXCEPT !.iters = n + 1],
                                    to_consume)
                      ELSE Stateful([Ok("ConsumedOk", again.range, again.pos) EXCEPT !.iters = n + 1],
                                    0)
             ELSE LET step == stream_uncons(data, cur)
                  IN  IF ~step.ok
                      THEN Stateful([Panic(cur) EXCEPT !.iters = n + 1], to_consume)
                      ELSE TakeUntilRangeLoop(data, before, partial, target, to_consume,
                                              step.pos, first_stream_error, n + 1)
        ELSE LET fse == IF first_stream_error = NoError THEN cur - before
                                                         ELSE first_stream_error
                 step == stream_uncons(data, cur)
             IN  IF ~step.ok
                 THEN Stateful([wrap_stream_error(partial, before)
                                    EXCEPT !.origin = before + fse, !.iters = n + 1], fse)
                 ELSE TakeUntilRangeLoop(data, before, partial, target, to_consume,
                                         step.pos, fse, n + 1)

\* TakeUntilRange remembering the latest failed look-ahead instead of the
\* first one.
TakeUntilRangeLatestError(data, pos, partial, target, to_consume) ==
    LET skip == uncons_range(data, pos, partial, to_consume)
        out == TakeUntilRangeLoop(data, pos, partial, target, to_consume, skip.pos, NoError, 0)
    IN  IF IsErr(skip.tag) THEN Stateful(skip, to_consume)
        ELSE IF IsErr(out.res.tag)
        THEN Stateful([out.res EXCEPT !.origin = Len(data)], Len(data) - pos)
        ELSE out

\* TakeUntilRange leaving the cursor behind the match it found.
TakeUntilRangeEatsTarget(data, pos, partial, target, to_consume) ==
    LET skip == uncons_range(data, pos, partial, to_consume)
        out == TakeUntilRangeLoop(data, pos, partial, target, to_consume, skip.pos, NoError, 0)
    IN  IF IsErr(skip.tag) THEN Stateful(skip, to_consume)
        ELSE IF IsOk(out.res.tag)
        THEN Stateful([out.res EXCEPT !.pos = @ + Len(target)], out.dist)
        ELSE out

\* TakeUntilRange that does not clear to_consume when it finds the target.
TakeUntilRangeKeepsDistance(data, pos, partial, target, to_consume) ==
    LET skip == uncons_range(data, pos, partial, to_consume)
        out == TakeUntilRangeLoop(data, pos, partial, target, to_consume, skip.pos, NoError, 0)
    IN  IF IsErr(skip.tag) THEN Stateful(skip, to_consume)
        ELSE IF IsOk(out.res.tag) THEN Stateful(out.res, to_consume)
        ELSE out

\* TakeUntilRange that skips to_consume items and then scans again from the
\* checkpoint.
TakeUntilRangeRescans(data, pos, partial, target, to_consume) ==
    LET skip == uncons_range(data, pos, partial, to_consume)
    IN  IF IsErr(skip.tag)
        THEN Stateful(skip, to_consume)
        ELSE TakeUntilRangeLoop(data, pos, partial, target, to_consume, pos, NoError, 0)

\* TakeUntilRange::parse_partial (the parse mode is not consulted: parse_first
\* and parse_partial are the same function)
TakeUntilRangeParsePartial(data, pos, partial, target, to_consume) ==
    LET before == pos
        skip == uncons_range(data, pos, partial, to_consume)
    IN  IF IsErr(skip.tag)
        THEN Stateful(skip, to_consume)
        ELSE TakeUntilRangeLoop(data, before, partial, target, to_consume, skip.pos, NoError, 0)

\* ------------------------------------------------------------- recognize
\* What the inner parser P did when RecognizeWithValue called it: the
\* outcome tag, how far it moved the cursor from where it was called, the
\* value it produced (of no account when it failed) and the nested state it
\* left (1 when it suspended, the default 0 otherwise).
InnerOutcomes(room) ==
    {o \in [tag : {"EmptyOk", "ConsumedOk", "EmptyErr", "ConsumedErr"},
            adv : 0..room, value : Values, child : 0..1] :
        /\ o.tag \in {"EmptyOk", "EmptyErr"} => o.adv = 0
        /\ o.tag = "ConsumedOk" => o.adv > 0
        /\ IsErr(o.tag) => o.value = "v"
        /\ o.child = IF o.tag = "ConsumedErr" THEN 1 ELSE 0}

\* The room the inner parser has after the fast-forward of a resumed call.
InnerRoom(mode, data, pos, distance_state) ==
    LET skip == IF mode = "First" THEN 0 ELSE distance_state
    IN  IF skip <= Len(data) - pos THEN Len(data) - pos - skip ELSE 0

\* RecognizeWithValue re-extracting the range without the reset to the
\* checkpoint.
RecognizeWithValueNoReset(mode, data, pos, partial, distance_state, child_state, inner) ==
    LET before == pos
        ff == IF mode # "First" THEN stream_uncons_range(data, pos, distance_state)
                                ELSE [ok |-> TRUE, range |-> <<>>, pos |-> pos]
        at == ff.pos + inner.adv
    IN  IF ~ff.ok
        THEN [res |-> Panic(pos), dist |-> distance_state, child |-> child_state, value |-> "none"]
        ELSE CASE inner.tag = "EmptyErr" ->
                    [res |-> Err("EmptyErr", at, "empty", at), dist |-> distance_state,
                     child |-> inner.child, value |-> "none"]
               [] inner.tag = "ConsumedErr" ->
                    [res |-> Err("ConsumedErr", before, "eoi", at), dist |-> at - before,
                     child |-> inner.child, value |-> "none"]
               [] OTHER ->
                    LET distance == at - before
                        t == TakeParseLazy(data, at, partial, distance)
                    IN  [res |-> t, dist |-> IF IsOk(t.tag) THEN 0 ELSE distance_state,
                         child |-> inner.child, value |-> IF IsOk(t.tag) THEN inner.value ELSE "none"]

\* RecognizeWithValue::parse_mode; inner is the inner parser's outcome.
\* The result carries the pair (range, value) as range and value.
RecognizeWithValueParseMode(mode, data, pos, partial, distance_state, child_state, inner) ==
    LET before == pos
        ff == IF mode # "First" THEN stream_uncons_range(data, pos, distance_state)
                                ELSE [ok |-> TRUE, range |-> <<>>, pos |-> pos]
        at == ff.pos + inner.adv
    IN  IF ~ff.ok
        THEN [res |-> Panic(pos), dist |-> distance_state, child |-> child_state, value |-> "none"]
        ELSE CASE inner.tag = "EmptyErr" ->
                    [res |-> Err("EmptyErr", at, "empty", at), dist |-> distance_state,
                     child |-> inner.child, value |-> "none"]
               [] inner.tag = "ConsumedErr" ->
                    [res |-> Err("ConsumedErr", before, "eoi", at), dist |-> at - before,
                     child |-> inner.child, value |-> "none"]
               [] OTHER ->
                    LET distance == at - before
                        t == TakeParseLazy(data, before, partial, distance)
                    IN  [res |-> t, dist |-> IF IsOk(t.tag) THEN 0 ELSE distance_state,
                         child |-> inner.child, value |-> IF IsOk(t.tag) THEN inner.value ELSE "none"]

\* recognize: recognize_with_value(parser).map(|(range, _)| range)
RecognizeParseMode(mode, data, pos, partial, distance_state, child_state, inner) ==
    [RecognizeWithValueParseMode(mode, data, pos, partial, distance_state, child_state, inner)
        EXCEPT !.value = "none"]

\* ------------------------------------------------------------ the program
VARIABLES
    full,      \* the whole input of the parse, as it will eventually arrive
    avail,     \* how many items of it the stream holds so far
    partial,   \* is_partial(): more input may arrive
    pos,       \* the cursor: items consumed
    prim,      \* the parser the caller runs
    st,        \* its PartialState: the stored distance and the nested state
    last,      \* the call that returned last
    sess,      \* the logical parse the last call belongs to
    reuses     \* how often a state object was carried over to another input

vars == <<full, avail, partial, pos, prim, st, last, sess, reuses>>

Data == SubSeq(full, 1, avail)

Prim(kind, n, pred, target) == [kind |-> kind, n |-> n, pred |-> pred, target |-> target]

Prims ==
    {Prim("range", 0, {}, t) : t \in SeqsUpTo(MaxTarget)}
    \cup {Prim("take", n, {}, <<>>) : n \in 0..MaxTake}
    \cup {Prim(k, 0, p, <<>>) : k \in {"take_while", "take_while1"}, p \in SUBSET Items}
    \cup {Prim("take_until_range", 0, {}, t) : t \in SeqsUpTo(MaxTarget)}
    \cup {Prim(k, 0, {}, <<>>) : k \in {"recognize", "recognize_with_value"}}

\* Default::default() of the PartialState
ZeroState == [dist |-> 0, child |-> 0]

NoInner == [tag |-> "None", adv |-> 0, value |-> "none", child |-> 0]

NoCall ==
    [mode |-> "None", start |-> 0, avail |-> 0, dist0 |-> 0, child0 |-> 0,
     tag |-> "None", range |-> <<>>, value |-> "none", err |-> "none", errAt |-> 0,
     origin |-> 0, iters |-> 0, inner |-> NoInner]

\* The record of a call that was made in mode with the inner outcome inner
\* and returned res (and value, for recognize_with_value).
Returned(mode, res, value, inner) ==
    [mode |-> mode, start |-> pos, avail |-> avail, dist0 |-> st.dist, child0 |-> st.child,
     tag |-> res.tag, range |-> res.range, value |-> value, err |-> res.err,
     errAt |-> res.errAt, origin |-> res.origin, iters |-> res.iters, inner |-> inner]

\* A call after a consumed error continues the suspended parse, and follows
\* the caller protocol if it is made in Resume mode; any other call starts a
\* parse at the cursor, and follows the protocol if it is made in First mode
\* with a default state.
Session(mode) ==
    IF last.tag = "ConsumedErr"
    THEN [start |-> sess.start, proto |-> sess.proto /\ mode = "Resume"]
    ELSE [start |-> pos, proto |-> mode = "First" /\ st = ZeroState]

Init ==
    /\ full \in SeqsUpTo(MaxLen)
    /\ partial \in BOOLEAN
    /\ avail \in 0..Len(full)
    /\ ~partial => avail = Len(full)
    /\ pos = 0
    /\ prim \in Prims
    /\ st = ZeroState
    /\ last = NoCall
    /\ sess = [start |-> 0, proto |-> TRUE]
    /\ reuses = 0

\* The caller gives up a parse that failed or was suspended and runs the same
\* parser on another input, all of it available, handing it the state object
\* the earlier parse left behind (with a default state the parse is an
\* initial state).
NewParse ==
    /\ IsErr(last.tag)
    /\ st.dist # 0
    /\ reuses < MaxReuse
    /\ reuses' = reuses + 1
    /\ full' \in SeqsUpTo(MaxLen)
    /\ partial' \in BOOLEAN
    /\ avail' = Len(full')
    /\ pos' = 0
    /\ last' = NoCall
    /\ sess' = [start |-> 0, proto |-> FALSE]
    /\ UNCHANGED <<prim, st>>

\* More input arrives on a partial stream: items are appended.
Feed ==
    /\ partial
    /\ last.tag # "Panic"
    /\ avail < Len(full)
    /\ avail' \in (avail + 1)..Len(full)
    /\ UNCHANGED <<full, partial, pos, prim, st, last, sess, reuses>>

CallRange ==
    /\ prim.kind = "range"
    /\ last.tag # "Panic"
    /\ \E mode \in Modes :
        LET res == RangeParseLazy(Data, pos, partial, prim.target)
        IN  /\ pos' = res.pos
            /\ last' = Returned(mode, res, "none", NoInner)
            /\ sess' = Session(mode)
    /\ UNCHANGED <<full, avail, partial, prim, st, reuses>>

CallTake ==
    /\ prim.kind = "take"
    /\ last.tag # "Panic"
    /\ \E mode \in Modes :
        LET res == TakeParseLazy(Data, pos, partial, prim.n)
        IN  /\ pos' = res.pos
            /\ last' = Returned(mode, res, "none", NoInner)
            /\ sess' = Session(mode)
    /\ UNCHANGED <<full, avail, partial, prim, st, reuses>>

CallTakeWhile ==
    /\ prim.kind = "take_while"
    /\ last.tag # "Panic"
    /\ \E mode \in Modes :
        LET out == TakeWhileParseMode(mode, Data, pos, partial, st.dist, prim.pred)
        IN  /\ pos' = out.res.pos
            /\ st' = [st EXCEPT !.dist = out.dist]
            /\ last' = Returned(mode, out.res, "none", NoInner)
            /\ sess' = Session(mode)
    /\ UNCHANGED <<full, avail, partial, prim, reuses>>

CallTakeWhile1 ==
    /\ prim.kind = "take_while1"
    /\ last.tag # "Panic"
    /\ \E mode \in Modes :
        LET out == TakeWhile1ParseMode(mode, Data, pos, partial, st.dist, prim.pred)
        IN  /\ pos' = out.res.pos
            /\ st' = [st EXCEPT !.dist = out.dist]
            /\ last' = Returned(mode, out.res, "none", NoInner)
            /\ sess' = Session(mode)
    /\ UNCHANGED <<full, avail, partial, prim, reuses>>

CallTakeUntilRange ==
    /\ prim.kind = "take_until_range"
    /\ last.tag # "Panic"
    /\ \E mode \in Modes :
        LET out == TakeUntilRangeParsePartial(Data, pos, partial, prim.target, st.dist)
        IN  /\ pos' = out.res.pos
            /\ st' = [st EXCEPT !.dist = out.dist]
            /\ last' = Returned(mode, out.res, "none", NoInner)
            /\ sess' = Session(mode)
    /\ UNCHANGED <<full, avail, partial, prim, reuses>>

CallRecognize ==
    /\ prim.kind \in {"recognize", "recognize_with_value"}
    /\ last.tag # "Panic"
    /\ \E mode \in Modes :
        \E inner \in InnerOutcomes(InnerRoom(mode, Data, pos, st.dist)) :
            \* recognize drops the value: one value stands for all
            /\ prim.kind = "recognize" => inner.value = "v"
            /\ LET out == IF prim.kind = "recognize"
                       THEN RecognizeParseMode(mode, Data, pos, partial, st.dist, st.child, inner)
                       ELSE RecognizeWithValueParseMode(mode, Data, pos, partial, st.dist,
                                                        st.child, inner)
               IN  /\ pos' = out.res.pos
                   /\ st' = [dist |-> out.dist, child |-> out.child]
                   /\ last' = Returned(mode, out.res, out.value,
                                       IF out.res.tag = "Panic" THEN NoInner ELSE inner)
                   /\ sess' = Session(mode)
    /\ UNCHANGED <<full, avail, partial, prim, reuses>>

Next ==
    \/ NewParse
    \/ Feed
    \/ CallRange
    \/ CallTake
    \/ CallTakeWhile
    \/ CallTakeWhile1
    \/ CallTakeUntilRange
    \/ CallRecognize

Spec == Init /\ [][Next]_vars

\* ------------------------------------------- the scaffold as a function
\* parse_partial_range is generic in its two scan closures. Here it is
\* called directly, with each of the scans of this file in either place and
\* with any stored distance.
Closures == {"uncons_while", "uncons_while1"}

Scaffold(first, resume, pred) ==
    [kind |-> "parse_partial_range", n |-> 0, pred |-> pred, target |-> <<>>,
     first |-> first, resume |-> resume]

ScaffoldInit ==
    /\ full \in SeqsUpTo(MaxLen)
    /\ partial \in BOOLEAN
    /\ avail \in 0..Len(full)
    /\ ~partial => avail = Len(full)
    /\ pos = 0
    /\ prim \in {Scaffold(f, r, p) : f \in Closures, r \in Closures, p \in SUBSET Items}
    /\ st \in [dist : 0..MaxLen, child : {0}]
    /\ last = NoCall
    /\ sess = [start |-> 0, proto |-> FALSE]
    /\ reuses = 0

ScaffoldCall ==
    /\ last.tag # "Panic"
    /\ \E mode \in Modes :
        LET out == parse_partial_range(mode, Data, pos, partial, st.dist, prim.pred,
                                       prim.first, prim.resume)
        IN  /\ pos' = out.res.pos
            /\ st' = [st EXCEPT !.dist = out.dist]
            /\ last' = Returned(mode, out.res, "none", NoInner)
            /\ sess' = Session(mode)
    /\ UNCHANGED <<full, avail, partial, prim, reuses>>

ScaffoldNext ==
    \/ Feed
    \/ ScaffoldCall

ScaffoldSpec == ScaffoldInit /\ [][ScaffoldNext]_vars

TypeOK ==
    /\ full \in SeqsUpTo(MaxLen)
    /\ avail \in 0..Len(full)
    /\ pos \in 0..avail
    /\ st.dist \in 0..MaxLen

\* ------------------------------------------------------------ properties
Called == last.tag \notin {"None", "Panic"}

\* The items the stream held when the last call was made.
DataAt == SubSeq(full, 1, last.avail)

\* What the caller sees of a call: the outcome variant, the output range and
\* the cursor at return.
Seen(res) == <<res.tag, res.range, res.pos>>

SeenNow == <<last.tag, last.range, pos>>

\* t occurs in data at offset i
Occurs(data, i, t) == i + Len(t) <= Len(data) /\ SubSeq(data, i + 1, i + Len(t)) = t

HasOcc(data, from, t) == \E i \in from..Len(data) : Occurs(data, i, t)

FirstOcc(data, from, t) ==
    CHOOSE i \in from..Len(data) :
        Occurs(data, i, t) /\ \A j \in from..(i - 1) : ~Occurs(data, j, t)

\* One First-mode call with a default state, from the start of the parse,
\* on the first n items of the input delivered as a single chunk.
WhileSingleChunk(n) ==
    IF prim.kind = "take_while"
    THEN TakeWhileParseMode("First", SubSeq(full, 1, n), sess.start, partial, 0, prim.pred).res
    ELSE TakeWhile1ParseMode("First", SubSeq(full, 1, n), sess.start, partial, 0, prim.pred).res

UntilSingleChunk(n) ==
    TakeUntilRangeParsePartial(SubSeq(full, 1, n), sess.start, partial, prim.target, 0).res

\* C1: on a partial stream, a take_while/take_while1 parse that follows the
\* caller protocol (First mode with a default state, Resume mode with the
\* state left behind after each consumed error, the stream only growing)
\* shows after every call the outcome variant, range and cursor of a single
\* First-mode call on the items delivered so far; and once a call returns
\* anything but a consumed error, that is also what a single call on any
\* longer delivery of the same input shows.
C1_ChunkingWhile ==
    (prim.kind \in {"take_while", "take_while1"} /\ partial /\ sess.proto /\ Called)
        => /\ SeenNow = Seen(WhileSingleChunk(last.avail))
           /\ last.tag # "ConsumedErr"
                => \A n \in last.avail..Len(full) : SeenNow = Seen(WhileSingleChunk(n))

\* A resumed take_while1 call returns a range that spans the chunk boundary
\* and stops at an item that fails the predicate.
C1_Witness ==
    /\ prim.kind = "take_while1" /\ partial /\ sess.proto
    /\ last.mode = "Resume" /\ last.dist0 > 0
    /\ last.tag = "ConsumedOk"
    /\ Len(last.range) > last.dist0
    /\ pos < last.avail

\* C2: a take_until_range parse that follows the caller protocol shows after
\* every call what a single call with a default state on the items delivered
\* so far shows; if the target occurs in those items the call succeeds with
\* the items before its first occurrence, wherever the chunk boundaries fell.
C2_ChunkingUntil ==
    (prim.kind = "take_until_range" /\ sess.proto /\ Called)
        => /\ SeenNow = Seen(UntilSingleChunk(last.avail))
           /\ last.tag # "ConsumedErr"
                => \A n \in last.avail..Len(full) : SeenNow = Seen(UntilSingleChunk(n))
           /\ HasOcc(DataAt, sess.start, prim.target)
                => /\ IsOk(last.tag)
                   /\ pos = FirstOcc(DataAt, sess.start, prim.target)
                   /\ last.range = SubSeq(DataAt, sess.start + 1, pos)

\* A resumed call finds a target that began in the earlier chunk and ended
\* in the later one.
C2_Witness ==
    /\ prim.kind = "take_until_range" /\ sess.proto
    /\ last.mode = "Resume" /\ last.tag \in {"EmptyOk", "ConsumedOk"}
    /\ Len(prim.target) = 2
    /\ \E a \in 1..(last.avail - 1) :
          /\ pos < a /\ a < pos + Len(prim.target)
          /\ last.dist0 = pos - sess.start

\* C3: take_until_range called with a zero stored distance on an input in
\* which the target occurs returns the items before the first occurrence,
\* leaves the cursor at the start of that occurrence, and is EmptyOk when
\* there are no such items and ConsumedOk otherwise.
C3_UntilFirstOccurrence ==
    (prim.kind = "take_until_range" /\ Called /\ last.dist0 = 0
        /\ HasOcc(DataAt, last.start, prim.target))
        => LET at == FirstOcc(DataAt, last.start, prim.target)
           IN  /\ pos = at
               /\ last.range = SubSeq(DataAt, last.start + 1, at)
               /\ last.tag = IF at = last.start THEN "EmptyOk" ELSE "ConsumedOk"

\* The target occurs twice behind a nonempty prefix; the first occurrence
\* is the one found.
C3_Witness ==
    /\ prim.kind = "take_until_range" /\ last.dist0 = 0
    /\ last.tag = "ConsumedOk"
    /\ Len(prim.target) > 0
    /\ Occurs(DataAt, pos, prim.target)
    /\ \E j \in (pos + 1)..Len(DataAt) : Occurs(DataAt, j, prim.target)

\* C4: on a complete (non-partial) stream take_while never fails: it returns
\* the longest run of items satisfying the predicate that starts at the
\* cursor and leaves the cursor right behind it; a take_while call that
\* follows a successful one, on the leftover, returns the empty range and
\* does not move the cursor.
C4_WhileState ==
    (prim.kind = "take_while" /\ ~partial /\ Called)
        => /\ IsOk(last.tag)
           /\ pos = last.start + Len(last.range)
           /\ last.range = SubSeq(DataAt, last.start + 1, pos)
           /\ \A i \in (last.start + 1)..pos : DataAt[i] \in prim.pred
           /\ pos < Len(DataAt) => DataAt[pos + 1] \notin prim.pred

C4_WhileAgain ==
    (CallTakeWhile /\ ~partial /\ IsOk(last.tag))
        => (last'.tag = "EmptyOk" /\ last'.range = <<>> /\ pos' = pos)

C4_TakeWhileMaximal == []C4_WhileState /\ [][C4_WhileAgain]_vars

\* take_while returned a nonempty run that ends before the end of a complete
\* input, and was then run again on the leftover.
C4_Witness ==
    /\ prim.kind = "take_while" /\ ~partial
    /\ last.tag = "EmptyOk"
    /\ last.start > 0 /\ last.start < Len(DataAt)
    /\ DataAt[last.start] \in prim.pred

\* C5: take_while1 called in First mode with a zero stored distance fails
\* with an empty error, the cursor and the stored distance untouched, when
\* the first available item does not satisfy the predicate; when it does,
\* the call shows the range and cursor take_while shows on the same input.
C5_While1 ==
    (prim.kind = "take_while1" /\ Called /\ last.mode = "First" /\ last.dist0 = 0
        /\ last.start < last.avail)
        => IF DataAt[last.start + 1] \notin prim.pred
           THEN last.tag = "EmptyErr" /\ pos = last.start /\ st.dist = 0
           ELSE LET w == TakeWhileParseMode("First", DataAt, last.start, partial, 0, prim.pred).res
                IN  last.range = w.range /\ pos = w.pos

\* take_while1 failed on an item that does not satisfy the predicate.
C5_Witness ==
    /\ prim.kind = "take_while1" /\ last.mode = "First" /\ last.dist0 = 0
    /\ last.tag = "EmptyErr"
    /\ last.start < last.avail /\ DataAt[last.start + 1] \notin prim.pred

\* C6: take(n) returns the next n items and leaves the cursor n items on when
\* at least n items are available, and fails with the cursor where the call
\* began when fewer are; a take call leaves the state object as it was.
C6_TakeState ==
    (prim.kind = "take" /\ Called)
        => IF last.avail - last.start >= prim.n
           THEN /\ IsOk(last.tag)
                /\ last.range = SubSeq(DataAt, last.start + 1, last.start + prim.n)
                /\ pos = last.start + prim.n
           ELSE IsErr(last.tag) /\ pos = last.start /\ last.range = <<>>

C6_TakeFrame == CallTake => st' = st

C6_Take == []C6_TakeState /\ [][C6_TakeFrame]_vars

\* take(n) with n > 0 ran twice: once with enough items, and it left a
\* remainder.
C6_Witness ==
    /\ prim.kind = "take" /\ prim.n > 0
    /\ last.tag = "ConsumedOk" /\ last.start > 0 /\ pos < last.avail

\* C7: when the inner parser P succeeds from the call's start (First mode, or
\* nothing stored to skip), recognize and recognize_with_value return the
\* d items P consumed, leave the cursor where P left it, and are ConsumedOk
\* if d > 0 and EmptyOk if d = 0, whatever value P produced;
\* recognize_with_value hands that value on.
C7_Recognize ==
    (prim.kind \in {"recognize", "recognize_with_value"} /\ Called
        /\ IsOk(last.inner.tag) /\ (last.mode = "First" \/ last.dist0 = 0))
        => /\ last.range = SubSeq(DataAt, last.start + 1, last.start + last.inner.adv)
           /\ pos = last.start + last.inner.adv
           /\ last.tag = IF last.inner.adv > 0 THEN "ConsumedOk" ELSE "EmptyOk"
           /\ prim.kind = "recognize_with_value" => last.value = last.inner.value

\* The inner parser consumed some but not all of the items after a cursor
\* that was not at the beginning of the input.
C7_Witness ==
    /\ prim.kind = "recognize_with_value" /\ last.mode = "First"
    /\ last.inner.tag = "ConsumedOk" /\ last.inner.value = "w"
    /\ last.start > 0 /\ pos < last.avail
    /\ last.tag = "ConsumedOk"

\* C8: whenever a call returns an empty error, the cursor is where it was
\* when the call began.
C8_EmptyErrAtStart ==
    (Called /\ last.tag = "EmptyErr") => pos = last.start

\* C9 as stated: whenever a call returns a consumed error, the cursor is at
\* the position the failing scan or read had reached.
C9_ConsumedErrAtFailure ==
    (Called /\ last.tag = "ConsumedErr") => pos = last.errAt

\* C9: whenever a call returns a consumed error, the cursor is back where it
\* was when the call began; take_while, take_while1, recognize and
\* recognize_with_value keep the position the failing scan had reached as
\* the stored distance from there.
C9_ConsumedErrReset ==
    (Called /\ last.tag = "ConsumedErr")
        => /\ pos = last.start
           /\ prim.kind \in {"take_while", "take_while1", "recognize", "recognize_with_value"}
                => last.start + st.dist = last.errAt

\* A take_while scan ran into the end of the delivered items after it had
\* consumed some.
C9_Witness ==
    /\ prim.kind = "take_while" /\ partial
    /\ last.tag = "ConsumedErr"
    /\ st.dist > 0 /\ last.errAt > pos

\* C10: a call that returns an Ok outcome is tagged Consumed exactly when the
\* cursor at return is past the cursor at the call's start.
C10_OkTagMatchesCursor ==
    (Called /\ IsOk(last.tag)) => (last.tag = "ConsumedOk" <=> pos > last.start)

\* The stored distance of a stateful call reaches past the items the stream
\* holds: the fast-forward of the call cannot be made.
Overrun == last.dist0 > last.avail - last.start

\* The first cursor, from the one the scan of the last call started at, at
\* which fewer than len(target) items are left.
FirstShort ==
    CHOOSE c \in (last.start + last.dist0)..last.avail :
        /\ c + Len(prim.target) > last.avail
        /\ \A d \in (last.start + last.dist0)..(c - 1) : d + Len(prim.target) <= last.avail

\* C11: when the scan of take_until_range runs out of input, the cursor is
\* back at the call's start, the stored to_consume is the distance from
\* there to the first failed look-ahead of this call, and the error returned
\* is the error of that first failed look-ahead.
C11_UntilFirstFailure ==
    (prim.kind = "take_until_range" /\ Called /\ IsErr(last.tag) /\ ~Overrun)
        => /\ pos = last.start
           /\ st.dist = FirstShort - last.start
           /\ last.origin = FirstShort
           /\ last.err = "eoi"

\* The look-ahead failed more than once in a call that had skipped a stored
\* distance: the first failure is neither at the call's start nor at the end
\* of the input.
C11_Witness ==
    /\ prim.kind = "take_until_range" /\ IsErr(last.tag)
    /\ Len(prim.target) = 2
    /\ last.dist0 > 0 /\ ~Overrun
    /\ st.dist > 0 /\ last.start + st.dist < last.avail
    /\ last.iters >= 2

\* The last call of the scaffold took its first-attempt path on a partial
\* stream.
FirstAttempt == partial /\ (last.mode = "First" \/ last.dist0 = 0)

\* The distance a resumed recognize call skipped before it ran the inner
\* parser.
Skipped == IF last.mode = "First" THEN 0 ELSE last.dist0

\* C12: when the first-attempt scan of take_while/take_while1 on a partial
\* stream, or the inner parser of recognize/recognize_with_value, returns a
\* consumed error, the call stores the number of items between its start and
\* the cursor at the error, puts the cursor back at its start and returns the
\* consumed error; recognize keeps the nested state the inner parser left.
C12_Suspension ==
    /\ (prim.kind \in {"take_while", "take_while1"} /\ Called /\ FirstAttempt
            /\ last.tag = "ConsumedErr")
        => /\ last.errAt = last.avail
           /\ st.dist = last.errAt - last.start
           /\ pos = last.start
           /\ last.err = "eoi"
    /\ (prim.kind \in {"recognize", "recognize_with_value"} /\ last.inner.tag = "ConsumedErr")
        => /\ last.tag = "ConsumedErr"
           /\ last.errAt = last.start + Skipped + last.inner.adv
           /\ st.dist = last.errAt - last.start
           /\ pos = last.start
           /\ st.child = last.inner.child

\* A first-attempt scan that ran over two items before the input gave out,
\* in a call that was handed a stale distance.
C12_Witness ==
    /\ prim.kind = "take_while" /\ FirstAttempt /\ last.mode = "First"
    /\ last.tag = "ConsumedErr"
    /\ last.dist0 = 1 /\ st.dist = 2

\* The last call of the scaffold took its resume path: partial stream,
\* Resume mode, a nonzero stored distance.
ResumePath == partial /\ last.mode = "Resume" /\ last.dist0 # 0

FailedFastForward ==
    /\ last.tag # "None"
    /\ Overrun
    /\ \/ prim.kind \in {"take_while", "take_while1"} /\ ResumePath
       \/ prim.kind \in {"recognize", "recognize_with_value"} /\ last.mode = "Resume"
       \/ prim.kind = "take_until_range"

\* C14: a fast-forward that fails is never returned as an EmptyErr or a
\* ConsumedErr by a stateful primitive (take_while, take_while1, recognize,
\* recognize_with_value, take_until_range): the call ends in the fatal fault.
C14_FastForwardFault == FailedFastForward => last.tag = "Panic"

\* The last call made again in First mode with a default stored distance, on
\* the same items from the same cursor (for recognize: with the same inner
\* outcome and the same nested state).
FreshFirstCall ==
    CASE prim.kind = "take_while" ->
            TakeWhileParseMode("First", DataAt, last.start, partial, 0, prim.pred).res
      [] prim.kind = "take_while1" ->
            TakeWhile1ParseMode("First", DataAt, last.start, partial, 0, prim.pred).res
      [] prim.kind = "take_until_range" ->
            TakeUntilRangeParsePartial(DataAt, last.start, partial, prim.target, 0).res
      [] OTHER ->
            RecognizeWithValueParseMode("First", DataAt, last.start, partial, 0, last.child0,
                                        last.inner).res

\* C15: a First-mode call of a stateful primitive (take_while, take_while1,
\* recognize_with_value, take_until_range) that finds a nonzero stored
\* distance left by an earlier parse makes no fast-forward and returns the
\* outcome, range and cursor of a First-mode call with a zero stored
\* distance on the same input.
C15_StaleStateIgnored ==
    (prim.kind \in {"take_while", "take_while1", "recognize_with_value", "take_until_range"}
            /\ last.tag # "None" /\ last.mode = "First" /\ last.dist0 # 0)
        => /\ last.tag # "Panic"
           /\ SeenNow = Seen(FreshFirstCall)

\* What C15 says, of the three primitives that read the parse mode.
C15_StaleStateIgnoredByMode ==
    (prim.kind \in {"take_while", "take_while1", "recognize_with_value"}
            /\ last.tag # "None" /\ last.mode = "First" /\ last.dist0 # 0)
        => /\ last.tag # "Panic"
           /\ SeenNow = Seen(FreshFirstCall)

\* The last call was a Resume-mode call of take_while1 that continued a
\* suspended parse under the caller protocol.
While1Resumed ==
    /\ prim.kind = "take_while1" /\ partial /\ sess.proto
    /\ last.tag # "None" /\ last.mode = "Resume"

\* The first item the last call had not scanned before is there and does not
\* satisfy the predicate.
NextItemFails ==
    /\ last.start + last.dist0 < last.avail
    /\ DataAt[last.start + last.dist0 + 1] \notin prim.pred

\* C16: take_while1 resumed after a suspension. (a) If the suspension stored
\* a distance d >= 1 and the item after the d matched items does not satisfy
\* the predicate, the call succeeds with the range of exactly those d items.
\* (b) If it stored 0 and the first item does not satisfy the predicate, the
\* call fails with an empty error.
C16_While1AcrossSuspension ==
    (While1Resumed /\ NextItemFails)
        => IF last.dist0 >= 1
           THEN /\ last.tag = "ConsumedOk"
                /\ last.range = SubSeq(DataAt, last.start + 1, last.start + last.dist0)
                /\ pos = last.start + last.dist0
           ELSE /\ last.tag = "EmptyErr"
                /\ pos = last.start

\* Case (a) has happened: two items matched before the suspension, the item
\* that arrived then does not match.
C16_Witness ==
    /\ While1Resumed /\ NextItemFails
    /\ last.dist0 = 2 /\ last.tag = "ConsumedOk" /\ Len(last.range) = 2

\* Case (b) has happened.
C16_WitnessEmpty ==
    /\ While1Resumed /\ NextItemFails
    /\ last.dist0 = 0 /\ last.tag = "EmptyErr"

\* The first-attempt scan of the last take_while/take_while1 call, run on a
\* complete stream from the cursor the call started at.
FirstScanOnly ==
    Closure(IF prim.kind = "take_while" THEN "uncons_while" ELSE "uncons_while1",
            DataAt, last.start, FALSE, prim.pred)

\* C17: on a stream that is not partial, take_while and take_while1 run only
\* their first-attempt scan, in either mode and with any stored distance:
\* nothing is fast-forwarded and the stored distance is left as it was.
C17_CompleteStream ==
    (prim.kind \in {"take_while", "take_while1"} /\ ~partial /\ last.tag # "None")
        => /\ SeenNow = Seen(FirstScanOnly)
           /\ st.dist = last.dist0

\* A Resume-mode call on a complete stream that held fewer items than the
\* stored distance.
C17_Witness ==
    /\ prim.kind \in {"take_while", "take_while1"} /\ ~partial
    /\ last.mode = "Resume" /\ last.dist0 > 0 /\ Overrun
    /\ IsOk(last.tag)

\* The primitives that keep a stored distance.
StatefulKinds ==
    {"take_while", "take_while1", "take_until_range", "recognize", "recognize_with_value"}

\* C18: in a parse that follows the caller protocol, whenever take_while,
\* take_while1, take_until_range or recognize_with_value returns an Ok
\* outcome, the stored distance is zero afterwards (also after the EmptyOk of
\* take_until_range, which does not assign the state).
C18_OkLeavesZero ==
    (prim.kind \in {"take_while", "take_while1", "take_until_range", "recognize_with_value"}
            /\ sess.proto /\ IsOk(last.tag))
        => st.dist = 0

\* A resumed call that had a distance stored found its end and cleared it.
C18_Witness ==
    /\ prim.kind = "take_until_range" /\ sess.proto
    /\ last.mode = "Resume" /\ last.dist0 > 0
    /\ last.tag = "ConsumedOk" /\ st.dist = 0

\* C19: in a parse that follows the caller protocol, the stored distance
\* never exceeds the items the stream holds from the call's start, so no
\* call ends in one of the abort paths (the fast-forward panics of the
\* scaffold and of recognize, the two unreachable!() of take_until_range, a
\* negative distance).
C19_ProtocolNoAbort ==
    (prim.kind \in StatefulKinds /\ sess.proto)
        => /\ last.tag # "Panic"
           /\ ~Overrun
           /\ st.dist <= avail - last.start

\* A resumed call under the protocol whose stored distance was everything
\* the stream held before more arrived, and that suspended again.
C19_Witness ==
    /\ prim.kind \in StatefulKinds /\ sess.proto
    /\ last.mode = "Resume" /\ last.dist0 = 2
    /\ last.tag = "ConsumedErr" /\ st.dist = 3

\* The cursor at which the loop of the last take_until_range call began.
ScanStart == last.start + last.dist0

\* C20: every call of take_until_range ends with an Ok or an error outcome,
\* for any target and any amount of held input; each iteration of its loop
\* either returns or moves the scan cursor on by exactly one item, so a call
\* that returns Ok ran one iteration per cursor from where the scan began to
\* the match, a call that ran out of input one per cursor to the end of the
\* held items, and a call whose fast-forward failed ran none.
C20_UntilTerminates ==
    (prim.kind = "take_until_range" /\ last.tag # "None")
        => /\ last.tag \in {"EmptyOk", "ConsumedOk", "EmptyErr", "ConsumedErr"}
           /\ IsOk(last.tag) => last.iters = (pos - ScanStart) + 1
           /\ (IsErr(last.tag) /\ ~Overrun) => last.iters = (last.avail - ScanStart) + 1
           /\ Overrun => IsErr(last.tag) /\ last.iters = 0

\* A call that skipped a stored distance and then ran its loop three times
\* without finding its two-item target.
C20_Witness ==
    /\ prim.kind = "take_until_range" /\ Len(prim.target) = 2
    /\ last.dist0 = 1 /\ last.avail = 3 /\ last.start = 0
    /\ last.iters = 3 /\ IsErr(last.tag)

\* The empty target is found at once.
C20_WitnessEmptyTarget ==
    /\ prim.kind = "take_until_range" /\ prim.target = <<>>
    /\ last.avail = 0 /\ last.tag = "EmptyOk" /\ last.iters = 1

====
